---- MODULE Spec2Model ----
(***************************************************************************)
(* VibeHunt API (src/main.py, src/schemas.py): posts, comments and         *)
(* toggleable votes kept in three MongoDB collections, with a listing      *)
(* endpoint that runs an aggregation pipeline.                             *)
(*                                                                         *)
(* Time is counted in days.  BSON values that the code compares are        *)
(* records [type, n, wf, upper]: an ObjectId is type "objectId"; a text    *)
(* that may name an ObjectId is type "string", well formed (wf) when it is *)
(* 24 hex digits, written in upper or lower case.  Two BSON values of      *)
(* different type are never equal, as in the store.                        *)
(*                                                                         *)
(* The $lookup stages of list_posts give localField, foreignField, let and *)
(* pipeline together.  This is MongoDB's concise correlated subquery       *)
(* (servers from 5.0 on): a foreign document is joined when                *)
(* foreignField = localField AND the sub-pipeline's $match accepts it.     *)
(***************************************************************************)
EXTENDS Integers, Sequences, FiniteSets

VARIABLES db, seeded, now, post, comment, vote, nextVoteId, req, resp, pre, prev, pc, loc

vars == <<db, seeded, now, post, comment, vote, nextVoteId, req, resp, pre, prev, pc, loc>>

store == [post |-> post, comment |-> comment, vote |-> vote]

-----------------------------------------------------------------------------
(* Bounds of the model *)

\* documents inserted by requests in one run, one request at a time
MaxInserts == 1
\* documents inserted by requests in one run of overlapping requests
MaxConcInserts == 2

-----------------------------------------------------------------------------
(* Program constants *)

\* timedelta(days=7)
WeekDays == 7
\* timedelta(days=30)
MonthDays == 30
\* page_size: Query(8, ge=1, le=50)
MaxPageSize == 50
\* range(i + 1) over the four demo posts: 1 + 2 + 3 + 4 votes
SeedPosts == 4

\* the days on which requests arrive: from the first day, a week is one
\* step and a month one more
TimePoints == {0, WeekDays, WeekDays + MonthDays}

-----------------------------------------------------------------------------
(* BSON values and the conversions between ObjectId and text *)

Null == [type |-> "null", n |-> 0, wf |-> FALSE, upper |-> FALSE]

Oid(k) == [type |-> "objectId", n |-> k, wf |-> TRUE, upper |-> FALSE]

\* a text of 24 hex digits naming ObjectId k, in upper or lower case
HexText(k, up) == [type |-> "string", n |-> k, wf |-> TRUE, upper |-> up]

\* a text that is not 24 hex digits
BadText == [type |-> "string", n |-> 0, wf |-> FALSE, upper |-> FALSE]

\* str(ObjectId): the lower-case hex digits
to_str(oid) == HexText(oid.n, FALSE)

\* ObjectId(text): bson raises InvalidId unless the text is 24 hex digits,
\* of either case; Null stands for the exception
ObjectIdOf(text) == IF text.type = "string" /\ text.wf THEN Oid(text.n) ELSE Null

\* $toString: an ObjectId gives its lower-case hex digits, a string itself
toString(v) == IF v.type = "objectId" THEN HexText(v.n, FALSE) ELSE v

\* datetime.isoformat()
isoformat(t) == [iso |-> t]

\* a missing field of a request body
Missing == "<missing>"

\* None, the default of an optional field
None == "<None>"

\* a check that lets a missing field through
ValidStrAny(v) == TRUE

\* pydantic's check of a required str field: present (any str, "" too)
ValidStr(v) == v # Missing

-----------------------------------------------------------------------------
(* Sequence helpers *)

\* the positions of s whose element satisfies P
Where(s, P(_)) == {i \in 1..Len(s) : P(s[i])}

SetMin(S) == CHOOSE i \in S : \A j \in S : i <= j

Count(s, P(_)) == Cardinality(Where(s, P))

\* the first element of s that satisfies P, or Null
First(s, P(_)) == IF Where(s, P) = {} THEN Null ELSE s[SetMin(Where(s, P))]

\* s without its first element that satisfies P
RemoveFirst(s, P(_)) ==
    IF Where(s, P) = {} THEN s
    ELSE LET i == SetMin(Where(s, P))
         IN  SubSeq(s, 1, i - 1) \o SubSeq(s, i + 1, Len(s))

Map(s, F(_)) == [i \in 1..Len(s) |-> F(s[i])]

-----------------------------------------------------------------------------
(* Documents *)

PostDoc(k, title, description, link, tags, author, t) ==
    [_id |-> Oid(k), title |-> title, description |-> description, link |-> link,
     tags |-> tags, author_name |-> author, created_at |-> t, updated_at |-> t]

CommentDoc(k, pid, author, content, t) ==
    [_id |-> Oid(k), post_id |-> pid, author_name |-> author, content |-> content,
     created_at |-> t, updated_at |-> t]

VoteDoc(k, pid, cid, t) ==
    [_id |-> Oid(k), post_id |-> pid, client_id |-> cid, created_at |-> t, updated_at |-> t]

SeedClient(j) == IF j = 0 THEN "seed-client-0"
                 ELSE IF j = 1 THEN "seed-client-1"
                 ELSE IF j = 2 THEN "seed-client-2" ELSE "seed-client-3"

\* demo_posts, in insert order
demo_posts(t) ==
    << PostDoc(1, "AI Thumbnail Wizard", "thumbnails", "https://ai-thumb-wizard.dev",
               <<"AI", "Creator", "SaaS">>, "Nova", t),
       PostDoc(2, "Tweet-to-Course", "micro-course", None,
               <<"Education", "NoCode">>, "Ray", t),
       PostDoc(3, "Adless News", "digest", "https://adless.news",
               <<"Media", "Subscription">>, "Sage", t),
       PostDoc(4, "Cold DM Crafter", "outreach", None,
               <<"Sales", "AI">>, "Ivy", t) >>

\* the index (from 0) of the post that demo vote number k (from 1) is for:
\* post i gets i + 1 votes, so the votes of post i are numbers i(i+1)/2+1 ..
SeedVotePost(k) == CHOOSE i \in 0..(SeedPosts - 1) :
                      (i * (i + 1)) \div 2 < k /\ k <= ((i + 1) * (i + 2)) \div 2

SeedVotes == (SeedPosts * (SeedPosts + 1)) \div 2

\* demo_votes: for i, pid in enumerate(post_ids): for j in range(i + 1)
demo_votes(t) ==
    [k \in 1..SeedVotes |->
        LET i == SeedVotePost(k)
            j == k - 1 - (i * (i + 1)) \div 2
        IN  VoteDoc(k, to_str(Oid(i + 1)), SeedClient(j), t)]

\* demo_comments: one per demo post
demo_comments(t) ==
    [i \in 1..SeedPosts |-> CommentDoc(i, to_str(Oid(i)), "Guest", "Love this!", t)]

-----------------------------------------------------------------------------
(* Requests and responses *)

NoReq == [op |-> "none", post_id |-> Null, client_id |-> "", title |-> "",
          description |-> "", content |-> "", page |-> 0, page_size |-> 0,
          timeframe |-> "", sort_by |-> ""]

NoResp == [code |-> 0, status |-> "", id |-> Null, items |-> <<>>, total |-> 0,
           page |-> 0, page_size |-> 0]

Error(code) == [NoResp EXCEPT !.code = code]

\* the texts that requests give as post_id: ObjectId 1 as str() writes it
\* and in upper case, ObjectId 0 (well formed, never assigned) and a
\* malformed text
PostIdInputs == {HexText(1, FALSE), HexText(1, TRUE), HexText(0, FALSE), BadText}

ClientIds == {"seed-client-0", "c1"}

PostPayloads == { [title |-> "X", description |-> "Y"],
                  [title |-> "", description |-> ""],
                  [title |-> Missing, description |-> "Y"],
                  [title |-> "X", description |-> Missing] }

Contents == {"hi", Missing}

PageInputs == {0, 1, 2, 3}

PageSizeInputs == {2, MaxPageSize, MaxPageSize + 1}

Timeframes == {"week", "month", "all"}

SortKeys == {"votes", "comments", "latest"}

Reqs == {1, 2}

NoStore == [post |-> <<>>, comment |-> <<>>, vote |-> <<>>]

NoPrev == [req |-> NoReq, resp |-> NoResp, store |-> NoStore]

\* what a request in progress holds between two store operations
IdleLoc == [req |-> NoReq, found |-> Null, fq |-> [has |-> FALSE, since |-> 0],
            items |-> <<>>]

-----------------------------------------------------------------------------
(* Store operations on a collection, a sequence in insertion order *)

\* db["post"].find_one({"_id": ObjectId(post_id)}) inside try/except:
\* the post, or Null when there is none or ObjectId() raised
find_post(posts, post_id) ==
    LET oid == ObjectIdOf(post_id)
    IN  IF oid = Null THEN Null ELSE First(posts, LAMBDA p : p._id = oid)

\* db["vote"].find_one({"post_id": post_id, "client_id": client_id})
find_vote(votes, post_id, client_id) ==
    First(votes, LAMBDA v : v.post_id = post_id /\ v.client_id = client_id)

\* a delete whose filter matches every vote: the first one goes
delete_first(votes, _id) == Tail(votes)

\* db["vote"].delete_one({"_id": _id})
delete_one(votes, _id) == RemoveFirst(votes, LAMBDA v : v._id = _id)

\* create_document(collection, model): insert_one of the model's fields with
\* created_at and updated_at set to the current time
create_document(coll, doc) == Append(coll, doc)

\* get_documents(collection, filter)
get_documents(coll, post_id) == SelectSeq(coll, LAMBDA d : d.post_id = post_id)

-----------------------------------------------------------------------------
(* list_posts: the filter and the aggregation pipeline *)

\* filter_q: {} for "all", else {"created_at": {"$gte": since}}
filter_q(timeframe, t) ==
    IF timeframe # "all"
    THEN [has |-> TRUE,
          since |-> IF timeframe = "week" THEN t - WeekDays ELSE t - MonthDays]
    ELSE [has |-> FALSE, since |-> 0]

\* $match / count_documents filter
matches(p, fq) == (~fq.has) \/ p.created_at >= fq.since

\* $lookup with localField "_id", foreignField "post_id", let pid =
\* $toString($_id) and the sub-pipeline $match post_id = $toString($$pid):
\* the foreign documents that pass both the field equality and the $match
lookup(p, coll) ==
    SelectSeq(coll, LAMBDA d : /\ d.post_id = p._id
                               /\ d.post_id = toString(toString(p._id)))

\* the two $lookup stages and $addFields
addFields(p) ==
    LET vd == lookup(p, vote)
        cd == lookup(p, comment)
    IN  [_id |-> p._id, title |-> p.title, description |-> p.description,
         link |-> p.link, tags |-> p.tags, author_name |-> p.author_name,
         created_at |-> p.created_at, updated_at |-> p.updated_at,
         votes_docs |-> vd, comments_docs |-> cd,
         votes_count |-> Len(vd), comments_count |-> Len(cd)]

\* a sorts strictly before b under the $sort stage chosen by sort_by
before(a, b, sort_by) ==
    IF sort_by = "votes"
    THEN \/ a.votes_count > b.votes_count
         \/ a.votes_count = b.votes_count /\ a.created_at > b.created_at
    ELSE IF sort_by = "comments"
    THEN \/ a.comments_count > b.comments_count
         \/ a.comments_count = b.comments_count /\ a.created_at > b.created_at
    ELSE a.created_at > b.created_at

RECURSIVE insert(_, _, _)
insert(x, s, sort_by) ==
    IF s = <<>> THEN <<x>>
    ELSE IF before(x, Head(s), sort_by) THEN <<x>> \o s
    ELSE <<Head(s)>> \o insert(x, Tail(s), sort_by)

\* $sort; documents that tie on the sort key keep their collection order
RECURSIVE sort(_, _)
sort(s, sort_by) ==
    IF s = <<>> THEN <<>>
    ELSE insert(s[Len(s)], sort(SubSeq(s, 1, Len(s) - 1), sort_by), sort_by)

\* a pipeline without its $skip stage
skip_none(s, k) == s

\* $skip
RECURSIVE skip(_, _)
skip(s, k) == IF k = 0 \/ s = <<>> THEN s ELSE skip(Tail(s), k - 1)

\* $limit
RECURSIVE limit(_, _)
limit(s, k) == IF k = 0 \/ s = <<>> THEN <<>> ELSE <<Head(s)>> \o limit(Tail(s), k - 1)

\* to_str_id: _id becomes id, as text; datetimes become ISO text
to_str_id(d) ==
    [id |-> to_str(d._id), title |-> d.title, description |-> d.description,
     link |-> d.link, tags |-> d.tags, author_name |-> d.author_name,
     created_at |-> isoformat(d.created_at), updated_at |-> isoformat(d.updated_at),
     votes_docs |-> d.votes_docs, comments_docs |-> d.comments_docs,
     votes_count |-> d.votes_count, comments_count |-> d.comments_count]

\* the documents after $match, $lookup, $addFields and $sort
sorted_posts(fq, sort_by) ==
    sort(Map(SelectSeq(post, LAMBDA p : matches(p, fq)), addFields), sort_by)

\* db["post"].aggregate(pipeline), then to_str_id on each document
aggregate(fq, sort_by, page, page_size) ==
    Map(limit(skip(sorted_posts(fq, sort_by), (page - 1) * page_size), page_size),
        to_str_id)

\* a count that forgets the filter
count_all(fq) == Len(post)

\* db["post"].count_documents(filter_q)
count_documents(fq) == Count(post, LAMBDA p : matches(p, fq))

\* FastAPI's check of the query: page >= 1, 1 <= page_size <= 50
ValidQuery(page, page_size) == page >= 1 /\ page_size >= 1 /\ page_size <= MaxPageSize

-----------------------------------------------------------------------------
(* The state after import: no store configured, a store that seed_demo     *)
(* found empty and filled, or a store left without demo data               *)

Init ==
    /\ now = 0
    /\ \E s \in {"none", "empty", "seeded"} :
         /\ db = (s # "none")
         /\ seeded = (s = "seeded")
         /\ post = IF s = "seeded" THEN demo_posts(0) ELSE <<>>
         /\ vote = IF s = "seeded" THEN demo_votes(0) ELSE <<>>
         /\ comment = IF s = "seeded" THEN demo_comments(0) ELSE <<>>
         /\ nextVoteId = IF s = "seeded" THEN SeedVotes + 1 ELSE 1
    /\ req = NoReq
    /\ resp = NoResp
    /\ pre = NoStore
    /\ prev = NoPrev
    /\ pc = [r \in Reqs |-> "idle"]
    /\ loc = [r \in Reqs |-> IdleLoc]

-----------------------------------------------------------------------------
(* The handlers, each run from request to response with no other request   *)
(* in between.  A response is delivered before the next request starts.    *)

Idle == \A r \in Reqs : pc[r] = "idle"

\* the documents that requests have inserted so far
Inserted == (Len(post) - (IF seeded THEN SeedPosts ELSE 0))
              + (Len(comment) - (IF seeded THEN SeedPosts ELSE 0))
              + (nextVoteId - 1 - (IF seeded THEN SeedVotes ELSE 0))

Ready == Idle /\ resp = NoResp

\* time passes
Advance(days) ==
    /\ \E t \in days : t > now /\ now' = t
    /\ UNCHANGED <<db, seeded, post, comment, vote, nextVoteId, req, resp, pre, prev, pc, loc>>

\* time passes between requests
Tick == resp = NoResp /\ Advance(TimePoints)

\* the response leaves; a toggle that was answered is remembered as the
\* previous call, with the store it started from
deliver ==
    /\ Idle
    /\ resp # NoResp
    /\ prev' = IF req.op = "toggle_vote" /\ resp.code = 200
               THEN [req |-> req, resp |-> resp, store |-> pre]
               ELSE NoPrev
    /\ req' = NoReq
    /\ resp' = NoResp
    /\ pre' = NoStore
    /\ UNCHANGED <<db, seeded, now, post, comment, vote, nextVoteId, pc, loc>>

\* what create_post does with the post collection and what it answers
create_post_result(rq) ==
    IF ~(ValidStr(rq.title) /\ ValidStr(rq.description))
    THEN [post |-> post, resp |-> Error(422)]
    ELSE IF ~db THEN [post |-> post, resp |-> Error(500)]
    ELSE LET k == Len(post) + 1
         IN  [post |-> create_document(post,
                          PostDoc(k, rq.title, rq.description, None, <<>>, None, now)),
              resp |-> [NoResp EXCEPT !.code = 200, !.id = to_str(Oid(k))]]

CreatePost(payloads, max) ==
    /\ \E pl \in payloads :
         LET rq == [NoReq EXCEPT !.op = "create_post", !.title = pl.title,
                                 !.description = pl.description]
             out == create_post_result(rq)
         IN  /\ out.post # post => Inserted < max
             /\ req' = rq
             /\ post' = out.post
             /\ resp' = out.resp
    /\ pre' = store
    /\ UNCHANGED <<db, seeded, now, comment, vote, nextVoteId, prev, pc, loc>>

create_post == Ready /\ CreatePost(PostPayloads, MaxInserts)

\* add_comment without the check that the post exists
add_comment_unchecked(rq) ==
    IF ~ValidStr(rq.content) THEN [comment |-> comment, resp |-> Error(422)]
    ELSE IF ~db THEN [comment |-> comment, resp |-> Error(500)]
    ELSE LET k == Len(comment) + 1
         IN  [comment |-> create_document(comment,
                             CommentDoc(k, rq.post_id, None, rq.content, now)),
              resp |-> [NoResp EXCEPT !.code = 200, !.id = to_str(Oid(k))]]

\* what add_comment does with the comment collection and what it answers
add_comment_result(rq) ==
    IF ~ValidStr(rq.content) THEN [comment |-> comment, resp |-> Error(422)]
    ELSE IF ~db THEN [comment |-> comment, resp |-> Error(500)]
    ELSE IF find_post(post, rq.post_id) = Null
    THEN [comment |-> comment, resp |-> Error(404)]
    ELSE LET k == Len(comment) + 1
         IN  [comment |-> create_document(comment,
                             CommentDoc(k, rq.post_id, None, rq.content, now)),
              resp |-> [NoResp EXCEPT !.code = 200, !.id = to_str(Oid(k))]]

add_comment ==
    /\ Ready
    /\ \E pid \in PostIdInputs, c \in Contents :
         LET rq == [NoReq EXCEPT !.op = "add_comment", !.post_id = pid, !.content = c]
             out == add_comment_result(rq)
         IN  /\ out.comment # comment => Inserted < MaxInserts
             /\ req' = rq
             /\ comment' = out.comment
             /\ resp' = out.resp
    /\ pre' = store
    /\ UNCHANGED <<db, seeded, now, post, vote, nextVoteId, prev, pc, loc>>

\* toggle_vote without the lookup of an existing vote
toggle_vote_always_insert(rq) ==
    IF ~db THEN [vote |-> vote, next |-> nextVoteId, resp |-> Error(500)]
    ELSE IF find_post(post, rq.post_id) = Null
    THEN [vote |-> vote, next |-> nextVoteId, resp |-> Error(404)]
    ELSE [vote |-> create_document(vote,
                      VoteDoc(nextVoteId, rq.post_id, rq.client_id, now)),
          next |-> nextVoteId + 1,
          resp |-> [NoResp EXCEPT !.code = 200, !.status = "voted",
                                  !.id = to_str(Oid(nextVoteId))]]

\* what toggle_vote does with the vote collection and what it answers
toggle_vote_result(rq) ==
    IF ~db THEN [vote |-> vote, next |-> nextVoteId, resp |-> Error(500)]
    ELSE IF find_post(post, rq.post_id) = Null
    THEN [vote |-> vote, next |-> nextVoteId, resp |-> Error(404)]
    ELSE LET existing == find_vote(vote, rq.post_id, rq.client_id)
         IN  IF existing # Null
             THEN [vote |-> delete_one(vote, existing._id), next |-> nextVoteId,
                   resp |-> [NoResp EXCEPT !.code = 200, !.status = "unvoted"]]
             ELSE [vote |-> create_document(vote,
                               VoteDoc(nextVoteId, rq.post_id, rq.client_id, now)),
                   next |-> nextVoteId + 1,
                   resp |-> [NoResp EXCEPT !.code = 200, !.status = "voted",
                                           !.id = to_str(Oid(nextVoteId))]]

toggle_vote ==
    /\ Ready
    /\ \E pid \in PostIdInputs, cid \in ClientIds :
         LET rq == [NoReq EXCEPT !.op = "toggle_vote", !.post_id = pid, !.client_id = cid]
             out == toggle_vote_result(rq)
         IN  /\ out.next > nextVoteId => Inserted < MaxInserts
             /\ req' = rq
             /\ vote' = out.vote
             /\ nextVoteId' = out.next
             /\ resp' = out.resp
    /\ pre' = store
    /\ UNCHANGED <<db, seeded, now, post, comment, prev, pc, loc>>

\* what list_posts answers
list_posts_result(rq) ==
    IF ~ValidQuery(rq.page, rq.page_size) THEN Error(422)
    ELSE IF ~db THEN Error(500)
    ELSE LET fq == filter_q(rq.timeframe, now)
         IN  [NoResp EXCEPT !.code = 200,
                            !.items = aggregate(fq, rq.sort_by, rq.page, rq.page_size),
                            !.total = count_documents(fq),
                            !.page = rq.page, !.page_size = rq.page_size]

list_posts ==
    /\ Ready
    /\ \E pg \in PageInputs, ps \in PageSizeInputs, tf \in Timeframes, sb \in SortKeys :
         LET rq == [NoReq EXCEPT !.op = "list_posts", !.page = pg, !.page_size = ps,
                                 !.timeframe = tf, !.sort_by = sb]
         IN  /\ req' = rq
             /\ resp' = list_posts_result(rq)
    /\ pre' = store
    /\ UNCHANGED <<db, seeded, now, post, comment, vote, nextVoteId, prev, pc, loc>>

\* to_str_id on a comment document
comment_to_str_id(d) ==
    [id |-> to_str(d._id), post_id |-> d.post_id, author_name |-> d.author_name,
     content |-> d.content, created_at |-> isoformat(d.created_at),
     updated_at |-> isoformat(d.updated_at)]

\* what list_comments answers
list_comments_result(rq) ==
    IF ~db THEN Error(500)
    ELSE [NoResp EXCEPT !.code = 200,
                        !.items = Map(get_documents(comment, rq.post_id), comment_to_str_id)]

ListComments(pids) ==
    /\ \E pid \in pids :
         LET rq == [NoReq EXCEPT !.op = "list_comments", !.post_id = pid]
         IN  /\ req' = rq
             /\ resp' = list_comments_result(rq)
    /\ pre' = store
    /\ UNCHANGED <<db, seeded, now, post, comment, vote, nextVoteId, prev, pc, loc>>

list_comments == Ready /\ ListComments(PostIdInputs)

Next == Tick \/ deliver \/ create_post \/ add_comment \/ toggle_vote
          \/ list_posts \/ list_comments

Spec == Init /\ [][Next]_vars

-----------------------------------------------------------------------------
(* Overlapping requests.  Each store operation of a handler is one step;   *)
(* between two steps of one request the other request may run.             *)

\* what overlapping requests ask: one post_id that may exist and one that is
\* malformed, one client, one post, one comment, one query
ConcPostIds == {HexText(1, FALSE), BadText}

ConcClientIds == {"c1"}

ConcPayloads == { [title |-> "X", description |-> "Y"] }

ConcContents == {"hi"}

\* the days on which overlapping requests arrive
ConcTimePoints == {0, WeekDays}

ConcQueries == { [page |-> 1, page_size |-> 2, timeframe |-> "week", sort_by |-> "votes"] }

\* request r ends with response rs
Answer(r, rq, rs) ==
    /\ req' = rq
    /\ resp' = rs
    /\ pc' = [pc EXCEPT ![r] = "idle"]
    /\ loc' = [loc EXCEPT ![r] = IdleLoc]

\* request r goes on to its next store operation
Goto(r, label, l) ==
    /\ pc' = [pc EXCEPT ![r] = label]
    /\ loc' = [loc EXCEPT ![r] = l]
    /\ UNCHANGED <<req, resp>>

\* toggle_vote up to the post lookup
toggle_begin(r) ==
    /\ pc[r] = "idle"
    /\ \E pid \in ConcPostIds, cid \in ConcClientIds :
         LET rq == [NoReq EXCEPT !.op = "toggle_vote", !.post_id = pid, !.client_id = cid]
         IN  IF ~db THEN Answer(r, rq, Error(500))
             ELSE IF find_post(post, pid) = Null THEN Answer(r, rq, Error(404))
             ELSE Goto(r, "toggle_find", [IdleLoc EXCEPT !.req = rq])
    /\ UNCHANGED <<db, seeded, now, post, comment, vote, nextVoteId, pre, prev>>

\* existing = db["vote"].find_one(...)
toggle_find(r) ==
    /\ pc[r] = "toggle_find"
    /\ Goto(r, "toggle_write",
            [loc[r] EXCEPT !.found = find_vote(vote, loc[r].req.post_id,
                                               loc[r].req.client_id)])
    /\ UNCHANGED <<db, seeded, now, post, comment, vote, nextVoteId, pre, prev>>

\* a write that inserts only when the pair has no vote at the time of the
\* write, as under a uniqueness constraint
toggle_written_unique(found, rq) ==
    IF found # Null THEN delete_one(vote, found._id)
    ELSE IF find_vote(vote, rq.post_id, rq.client_id) # Null THEN vote
    ELSE create_document(vote, VoteDoc(nextVoteId, rq.post_id, rq.client_id, now))

\* a write whose delete takes the newest vote instead of the one found
toggle_written_last(found, rq) ==
    IF found # Null THEN SubSeq(vote, 1, Len(vote) - 1)
    ELSE create_document(vote, VoteDoc(nextVoteId, rq.post_id, rq.client_id, now))

\* the vote collection after the write of toggle_vote
toggle_written(found, rq) ==
    IF found # Null THEN delete_one(vote, found._id)
    ELSE create_document(vote, VoteDoc(nextVoteId, rq.post_id, rq.client_id, now))

\* delete_one of the vote found, or create_document of a new one
toggle_write(r) ==
    /\ pc[r] = "toggle_write"
    /\ LET found == loc[r].found
           rq == loc[r].req
       IN  /\ found = Null => Inserted < MaxConcInserts
           /\ vote' = toggle_written(found, rq)
           /\ nextVoteId' = IF found # Null THEN nextVoteId ELSE nextVoteId + 1
           /\ Answer(r, rq,
                     IF found # Null
                     THEN [NoResp EXCEPT !.code = 200, !.status = "unvoted"]
                     ELSE [NoResp EXCEPT !.code = 200, !.status = "voted",
                                         !.id = to_str(Oid(nextVoteId))])
    /\ UNCHANGED <<db, seeded, now, post, comment, pre, prev>>

\* add_comment up to the post lookup
comment_begin(r) ==
    /\ pc[r] = "idle"
    /\ \E pid \in ConcPostIds, c \in ConcContents :
         LET rq == [NoReq EXCEPT !.op = "add_comment", !.post_id = pid, !.content = c]
         IN  IF ~ValidStr(c) THEN Answer(r, rq, Error(422))
             ELSE IF ~db THEN Answer(r, rq, Error(500))
             ELSE IF find_post(post, pid) = Null THEN Answer(r, rq, Error(404))
             ELSE Goto(r, "comment_insert", [IdleLoc EXCEPT !.req = rq])
    /\ UNCHANGED <<db, seeded, now, post, comment, vote, nextVoteId, pre, prev>>

\* create_document("comment", comment)
comment_insert(r) ==
    /\ pc[r] = "comment_insert"
    /\ Inserted < MaxConcInserts
    /\ LET rq == loc[r].req
           k == Len(comment) + 1
       IN  /\ comment' = create_document(comment,
                            CommentDoc(k, rq.post_id, None, rq.content, now))
           /\ Answer(r, rq, [NoResp EXCEPT !.code = 200, !.id = to_str(Oid(k))])
    /\ UNCHANGED <<db, seeded, now, post, vote, nextVoteId, pre, prev>>

\* list_posts up to db["post"].aggregate(pipeline)
list_begin(r) ==
    /\ pc[r] = "idle"
    /\ \E q \in ConcQueries :
         LET rq == [NoReq EXCEPT !.op = "list_posts", !.page = q.page,
                                 !.page_size = q.page_size,
                                 !.timeframe = q.timeframe, !.sort_by = q.sort_by]
             fq == filter_q(q.timeframe, now)
         IN  IF ~ValidQuery(q.page, q.page_size) THEN Answer(r, rq, Error(422))
             ELSE IF ~db THEN Answer(r, rq, Error(500))
             ELSE Goto(r, "list_count",
                       [IdleLoc EXCEPT !.req = rq, !.fq = fq,
                                       !.items = aggregate(fq, q.sort_by, q.page,
                                                           q.page_size)])
    /\ UNCHANGED <<db, seeded, now, post, comment, vote, nextVoteId, pre, prev>>

\* total = db["post"].count_documents(filter_q), and the response
list_count(r) ==
    /\ pc[r] = "list_count"
    /\ Answer(r, loc[r].req,
              [NoResp EXCEPT !.code = 200, !.items = loc[r].items,
                             !.total = count_documents(loc[r].fq),
                             !.page = loc[r].req.page,
                             !.page_size = loc[r].req.page_size])
    /\ UNCHANGED <<db, seeded, now, post, comment, vote, nextVoteId, pre, prev>>

\* create_post and list_comments make one store operation each
conc_create_post == CreatePost(ConcPayloads, MaxConcInserts)

conc_list_comments == ListComments({HexText(1, FALSE)})

conc_tick == Advance(ConcTimePoints)

NextConc ==
    \/ conc_tick
    \/ conc_create_post
    \/ conc_list_comments
    \/ \E r \in Reqs : toggle_begin(r)
    \/ \E r \in Reqs : toggle_find(r)
    \/ \E r \in Reqs : toggle_write(r)
    \/ \E r \in Reqs : comment_begin(r)
    \/ \E r \in Reqs : comment_insert(r)
    \/ \E r \in Reqs : list_begin(r)
    \/ \E r \in Reqs : list_count(r)

SpecConc == Init /\ [][NextConc]_vars

-----------------------------------------------------------------------------
(* Properties *)

\* the live votes of the pair (post_id text, client_id)
PairVotes(votes, pid, cid) ==
    Cardinality({i \in 1..Len(votes) : votes[i].post_id = pid /\ votes[i].client_id = cid})

\* the live votes whose post_id text is pid
LiveVotes(pid) == Cardinality({i \in 1..Len(vote) : vote[i].post_id = pid})

\* the comments whose post_id text is pid
LiveComments(pid) == Cardinality({i \in 1..Len(comment) : comment[i].post_id = pid})

\* text names a post of the collection: it is well formed and the ObjectId
\* it writes is the _id of a post
Resolves(posts, text) ==
    text.wf /\ \E i \in 1..Len(posts) : posts[i]._id.n = text.n

IsPrefix(s, t) == Len(s) <= Len(t) /\ SubSeq(t, 1, Len(s)) = s

Listed == req.op = "list_posts" /\ resp.code = 200

\* C1: with one request at a time, from an empty or a demo-seeded store, no
\* two vote records have the same post_id and the same client_id.
C1_OneVotePerPair ==
    \A i, j \in 1..Len(vote) :
        (vote[i].post_id = vote[j].post_id /\ vote[i].client_id = vote[j].client_id)
            => i = j

\* a toggle has inserted a vote beside the demo votes
C1_Witness ==
    seeded /\ req.op = "toggle_vote" /\ resp.status = "voted" /\ Len(vote) > SeedVotes

\* C2: a request that looked up its pair, found no vote and then writes, adds
\* a vote for the pair whatever the collection holds at the time of the write;
\* two overlapping requests that both found none leave two live votes.
C2_InsertAfterStaleLookup ==
    [][\A r \in Reqs :
          (pc[r] = "toggle_write" /\ pc'[r] = "idle" /\ loc[r].found = Null)
            => PairVotes(vote', loc[r].req.post_id, loc[r].req.client_id)
                 = PairVotes(vote, loc[r].req.post_id, loc[r].req.client_id) + 1]_vars

\* two live votes of one pair on an existing post, the last of them written
\* by a toggle that answered "voted"
C2_Witness ==
    /\ req.op = "toggle_vote" /\ resp.status = "voted"
    /\ Resolves(post, req.post_id)
    /\ PairVotes(vote, req.post_id, req.client_id) = 2

\* C3: two toggle_vote calls in a row with the same post_id and client_id, on
\* an existing post and a pair with no live vote, answer "voted" and then
\* "unvoted", leave no live vote of the pair, and leave the three collections
\* as they were before the first call.
C3_ToggleTwice ==
    ( /\ req.op = "toggle_vote" /\ prev.req.op = "toggle_vote"
      /\ req.post_id = prev.req.post_id /\ req.client_id = prev.req.client_id
      /\ Resolves(prev.store.post, req.post_id)
      /\ PairVotes(prev.store.vote, req.post_id, req.client_id) = 0 )
    => ( /\ prev.resp.status = "voted"
         /\ resp.code = 200 /\ resp.status = "unvoted"
         /\ PairVotes(vote, req.post_id, req.client_id) = 0
         /\ store = prev.store )

\* the second of two such calls has answered, on the demo store and with the
\* post_id written in upper case
C3_Witness ==
    /\ req.op = "toggle_vote" /\ prev.req.op = "toggle_vote"
    /\ req.post_id = prev.req.post_id /\ req.client_id = prev.req.client_id
    /\ prev.resp.status = "voted" /\ resp.status = "unvoted"
    /\ seeded /\ req.post_id.upper

\* C4: on a configured store, add_comment (with a content) and toggle_vote for
\* a post_id that names no post, malformed or not, answer 404 and leave the
\* three collections as they were.
C4_NotFound ==
    ( /\ db
      /\ \/ req.op = "toggle_vote"
         \/ req.op = "add_comment" /\ req.content # Missing
      /\ ~Resolves(pre.post, req.post_id) )
    => (resp.code = 404 /\ store = pre)

\* add_comment was refused for a malformed post_id while posts exist
C4_Witness ==
    /\ req.op = "add_comment" /\ req.post_id = BadText /\ req.content # Missing
    /\ resp.code = 404 /\ Len(post) > 0

\* C5, as claimed: every item of a listing carries the number of live votes
\* and of comments whose post_id text is the item's id.
C5_CountsAreLive ==
    Listed => \A k \in 1..Len(resp.items) :
                 /\ resp.items[k].votes_count = LiveVotes(resp.items[k].id)
                 /\ resp.items[k].comments_count = LiveComments(resp.items[k].id)

\* C6, as claimed: by votes, more live votes first and newer first among
\* equals; by comments likewise; by latest, newer first.
C6_SortedByLiveCounts ==
    Listed => \A i, j \in 1..Len(resp.items) :
                 i < j =>
                   LET a == resp.items[i]
                       b == resp.items[j]
                   IN  IF req.sort_by = "votes"
                       THEN /\ LiveVotes(a.id) >= LiveVotes(b.id)
                            /\ LiveVotes(a.id) = LiveVotes(b.id)
                                 => a.created_at.iso >= b.created_at.iso
                       ELSE IF req.sort_by = "comments"
                       THEN /\ LiveComments(a.id) >= LiveComments(b.id)
                            /\ LiveComments(a.id) = LiveComments(b.id)
                                 => a.created_at.iso >= b.created_at.iso
                       ELSE a.created_at.iso >= b.created_at.iso

\* C7: a listing holds at most page_size items, and they are the elements at
\* positions (page-1)*page_size+1 .. page*page_size of the filtered, sorted
\* sequence, as many of them as exist.
C7_PageIsSlice ==
    Listed =>
      LET full == sorted_posts(filter_q(req.timeframe, now), req.sort_by)
          lo == (req.page - 1) * req.page_size
          hi == IF req.page * req.page_size < Len(full)
                THEN req.page * req.page_size ELSE Len(full)
          n == IF hi > lo THEN hi - lo ELSE 0
      IN  /\ Len(resp.items) <= req.page_size
          /\ Len(resp.items) = n
          /\ \A k \in 1..n : resp.items[k] = to_str_id(full[lo + k])

\* a second page, full, that does not start the sequence
C7_Witness ==
    /\ Listed /\ req.page = 2 /\ req.page_size = 2 /\ Len(resp.items) = 2
    /\ resp.items[1].id # to_str(post[1]._id)

\* C8: the total of a listing is the number of posts created in the window
\* of its timeframe, whatever the page, the page size and the sort key.
C8_TotalIsWindowCount ==
    Listed =>
      resp.total =
        Cardinality({i \in 1..Len(post) :
            \/ req.timeframe = "all"
            \/ req.timeframe = "week" /\ post[i].created_at >= now - WeekDays
            \/ req.timeframe = "month" /\ post[i].created_at >= now - MonthDays})

\* a month's listing that leaves posts out, with fewer items than the total
C8_Witness ==
    /\ Listed /\ req.timeframe = "month"
    /\ resp.total > 0 /\ resp.total < Len(post)

C10_Frame ==
    [][ /\ IsPrefix(post, post')
        /\ IsPrefix(comment, comment')
        /\ (~IsPrefix(vote, vote')) =>
              \E r \in Reqs :
                 /\ pc[r] = "toggle_write" /\ pc'[r] = "idle"
                 /\ loc[r].found # Null
                 /\ loc[r].found.post_id = loc[r].req.post_id
                 /\ loc[r].found.client_id = loc[r].req.client_id
                 /\ \E i \in 1..Len(vote) :
                       /\ vote[i] = loc[r].found
                       /\ vote' = SubSeq(vote, 1, i - 1) \o SubSeq(vote, i + 1, Len(vote))
        /\ (\E r \in Reqs : (pc[r] = "idle" /\ pc'[r] = "list_count")
                                \/ (pc[r] = "list_count" /\ pc'[r] = "idle"))
              => store' = store
        /\ (req'.op \in {"list_posts", "list_comments"} /\ <<req', resp'>> # <<req, resp>>)
              => store' = store ]_vars

\* a toggle has deleted the vote it found while the other request was
\* between two store operations
C10_Witness ==
    /\ req.op = "toggle_vote" /\ resp.status = "unvoted"
    /\ \E r \in Reqs : pc[r] # "idle"

====
